---- MODULE Spec2Model ----
(***************************************************************************)
(* Tick ingestion pipeline: token distribution (src/src/instruments.py),   *)
(* the multi-socket connector and its feed callbacks (src/src/connector.py)*)
(* the stream publisher (src/src/redis_publisher.py), the stream receiver  *)
(* with its consumption loop, periodic flush thread and shutdown           *)
(* (src/src/receiver.py) and the SQLite writer (src/src/persistence.py).   *)
(*                                                                         *)
(* Seven specifications share the variables:                               *)
(*   SpecDist     distribute_tokens as a pure function of its inputs       *)
(*   SpecConn     coordinator start(), stop(), reconnect_all()             *)
(*   SpecCoord    the coordinator given any list of partitions             *)
(*   SpecFeed     one session's feed callbacks and the publisher           *)
(*   SpecPipe     two connections' pipelines applied command by command    *)
(*   SpecConsume  consumption loop against the stream's consumer group     *)
(*                (SpecConsumeFair adds the scheduling fairness)           *)
(*   SpecFlush    PersistBuffer, flush thread, writer, stop()              *)
(***************************************************************************)
EXTENDS Integers, Sequences, FiniteSets, TLC

\* ------------------------------------------------------------------ bounds
MaxInstruments == 4    \* longest instrument list handed to distribute_tokens
MaxNumSockets == 4     \* largest configured num_sockets (the code caps it)
MaxSymbols == 2        \* symbols given on the command line
MaxFeedSymbols == 1    \* symbols of the session whose callbacks are followed
MaxFeedSockets == 2    \* configured num_sockets of that session
MaxConns == 4          \* feed connections ever constructed in one session
MaxCallbacks == 2      \* tick callbacks delivered by the feed in one session
MaxBatch == 2          \* ticks in one feed callback
MaxClock == 1          \* clock readings beyond the first
MaxEntries == 3        \* entries ever appended to the stream
MaxOutages == 1        \* stream connection losses
MaxCrashes == 1        \* receiver process crashes
MaxStoreErrors == 1    \* transient sqlite3 errors
MaxPartitions == 4     \* partitions in a list handed to start()
MaxPipeTicks == 3      \* ticks one connection's socket delivers
MaxFlushCalls == 3     \* persist_ticks calls made by the flush thread
MaxErrors == 1         \* error events one socket delivers
MaxCreateCalls == 3    \* xgroup_create calls made on the stream

\* ------------------------------------------------------- program constants
SocketCap == 3         \* min(num_sockets, 3)

VARIABLES
    \* instruments.py / run_connector.py
    instruments,       \* list returned by get_instruments_for_symbols
    num_sockets,       \* connector.num_sockets from the configuration
    token_buckets,     \* list returned by distribute_tokens
    dist_done,         \* distribute_tokens has returned
    \* connector.py
    sockets,           \* MultiSocketConnector.sockets: indices into conns
    conns,             \* every SocketConnection constructed so far
    clock,             \* time.time()
    callbacks,         \* number of _on_ticks calls so far
    cb,                \* the last _on_ticks call: its batch and how it ended
    pipes,             \* per connection: pipelined XADDs sent and not yet applied
    start_exc,         \* the partition whose connection made the last start() raise, or 0
    \* redis_publisher.py and the stream itself
    pub_client,        \* RedisPublisher._client is not None
    redis_up,          \* the stream server is reachable
    outages,           \* connection losses so far
    stream,            \* the stream: entry id i is stream[i]
    \* the consumer group (server side)
    group,             \* whether it exists, and the last xgroup_create call
    last_delivered,    \* the group's last-delivered id
    pending,           \* the group's pending entries list (delivered, not acked)
    acked,             \* entries acknowledged so far (history)
    processed,         \* entries whose _process_entry returned or raised (history)
    \* receiver.py, consumption loop
    cpc,               \* where the consumption loop is
    inhand,            \* entries of the current read not yet handled
    polls,             \* parity of the empty reads (the loop's idle iterations)
    crashes,           \* receiver crashes so far
    ticks_processed,   \* TickReceiver._ticks_processed
    latest,            \* fast-lookup store: latest snapshot per trading symbol
    history,           \* fast-lookup store: entries in the per-symbol histories
    active_symbols,    \* fast-lookup store: the active symbols of each trade date
    \* receiver.py, PersistBuffer and flush thread
    buffer,            \* TickReceiver._pending_persist_buffer
    running,           \* TickReceiver._running
    fpc,               \* where the flush thread is
    batch,             \* the flush thread's swapped-out batch
    lock,              \* holder of TickReceiver._buffer_lock, or "free"
    \* persistence.py
    conn,              \* TickPersistence._conn: "none", "open" or "closed"
    txn,               \* rows inserted on the connection and not yet committed
    db,                \* committed rows of the ticks table
    writes,            \* persist_ticks calls in progress, by caller
    ncalls,            \* persist_ticks calls started so far
    call_len,          \* len(batch) of each persist_ticks call (history)
    store_errors,      \* transient sqlite3 errors so far
    \* receiver.py, stop()
    spc,               \* where stop() is
    at_stop,           \* ticks buffered or in flight when stop() was called (history)
    stop_calls         \* calls of stop() begun so far

distVars == <<instruments, num_sockets, token_buckets, dist_done>>
connVars == <<sockets, conns, clock, callbacks, cb, pipes, start_exc, pub_client>>
streamVars == <<redis_up, outages, stream>>
groupVars == <<last_delivered, pending, acked, processed>>
createVars == <<group>>
loopVars == <<cpc, inhand, polls, crashes, ticks_processed, latest, history, active_symbols>>
flushVars == <<buffer, running, fpc, batch, lock>>
storeVars == <<conn, txn, db, writes, ncalls, call_len, store_errors>>
stopVars == <<spc, at_stop, stop_calls>>
vars == <<distVars, connVars, streamVars, groupVars, createVars, loopVars,
          flushVars, storeVars, stopVars>>

\* ----------------------------------------------------------------- helpers
Range(s) == {s[i] : i \in DOMAIN s}
BoundedSeq(S, n) == UNION {[1..k -> S] : k \in 0..n}
Min(a, b) == IF a < b THEN a ELSE b
IsPrefix(p, s) == Len(p) <= Len(s) /\ SubSeq(s, 1, Len(p)) = p
RECURSIVE SumLen(_)
SumLen(ss) == IF ss = <<>> THEN 0 ELSE Len(Head(ss)) + SumLen(Tail(ss))
Distinct(s) == \A i, j \in DOMAIN s : i # j => s[i] # s[j]

\* ------------------------------------------------- instruments.py (inputs)
\* The instrument dump: per symbol its derivative contracts and its spot.
Symbols == {"NIFTY", "BANKNIFTY"}
Tokens == 1..4
Instrument(t, s) == [instrument_token |-> t, name |-> s]
\* get_derivative_tokens(symbol): the filtered contracts of the dump
DerivativeTokens(symbol) ==
    IF symbol = "NIFTY" THEN <<Instrument(1, "NIFTY")>>
    ELSE <<Instrument(3, "BANKNIFTY")>>
\* get_underlying_token(symbol): the spot instrument, or None when not found
UnderlyingToken(symbol) ==
    IF symbol = "NIFTY" THEN <<Instrument(2, "NIFTY")>> ELSE <<>>

\* get_instruments_for_symbols: derivatives then underlying, symbol by symbol,
\* in the order given; a symbol given twice is aggregated twice.
RECURSIVE GetInstrumentsForSymbols(_)
GetInstrumentsForSymbols(symbols) ==
    IF symbols = <<>> THEN <<>>
    ELSE DerivativeTokens(Head(symbols)) \o UnderlyingToken(Head(symbols))
         \o GetInstrumentsForSymbols(Tail(symbols))

\* the loop of distribute_tokens: buckets[i % num_sockets].append(token)
RECURSIVE FillBuckets(_, _, _, _)
FillBuckets(tokens, i, n, buckets) ==
    IF i > Len(tokens) THEN buckets
    ELSE FillBuckets(tokens, i + 1, n,
            [buckets EXCEPT ![((i - 1) % n) + 1] = Append(@, tokens[i])])

\* A plausible slip: buckets = [[]] * num_sockets shares one list.
DistributeTokensAliased(insts, n) ==
    LET ns == Min(n, SocketCap)
        tokens == [i \in DOMAIN insts |-> insts[i].instrument_token]
    IN  [b \in 1..ns |-> tokens]

DistributeTokens(insts, n) ==
    LET ns == Min(n, SocketCap)
        tokens == [i \in DOMAIN insts |-> insts[i].instrument_token]
    IN  FillBuckets(tokens, 1, ns, [b \in 1..ns |-> <<>>])

\* get_token_symbol_map: the tokens recorded while filtering
TokenToSymbol(insts) == {insts[i].instrument_token : i \in DOMAIN insts}

\* ------------------------------------------------------------- tick values
\* A trading symbol: a listed symbol (that of instrument n), the synthesized
\* TOKEN_<n>, the literal UNKNOWN, or no symbol at all.
ListedSymbol(n) == [kind |-> "SYM", n |-> n]
TokenSymbol(n) == [kind |-> "TOKEN", n |-> n]
UnknownSymbol == [kind |-> "UNKNOWN", n |-> 0]
NoSymbol == [kind |-> "ABSENT", n |-> 0]
\* the empty string as a symbol
EmptySymbol == [kind |-> "EMPTY", n |-> 0]
\* no exception raised
NoException == "none"

\* An exchange timestamp: the datetime object the feed delivers, the ISO
\* string it is serialized to, or none. date is the day, tod the time of day.
FeedTime(d, t) == [kind |-> "datetime", date |-> d, tod |-> t]
IsoTime(d, t) == [kind |-> "iso", date |-> d, tod |-> t]
NoTimestamp == [kind |-> "absent", date |-> 0, tod |-> 0]
\* In a payload it may also be the empty string, a string that is no ISO
\* date, or a JSON number.
EmptyTimestamp == [kind |-> "empty", date |-> 0, tod |-> 0]
BadTimestamp == [kind |-> "unparsable", date |-> 0, tod |-> 0]
NumberTimestamp == [kind |-> "number", date |-> 0, tod |-> 0]
\* _serialize_tick._default: obj.isoformat() for a datetime
IsoFormat(ts) == IF ts.kind = "datetime" THEN IsoTime(ts.date, ts.tod) ELSE ts
\* date.today() at the time of the write
Today == 2
\* datetime.now().isoformat()
Now == IsoTime(Today, 0)
\* `if ts_str:` on tick.get("exchange_timestamp", "")
Truthy(ts) == ts.kind \notin {"absent", "empty"}
\* datetime.fromisoformat(ts_str): what it raises
FromIsoFormatExc(ts) ==
    CASE ts.kind = "unparsable" -> "ValueError"
      [] ts.kind \in {"number", "datetime"} -> "TypeError"
      [] OTHER -> NoException
\* A handler for the parse error only.
DateCatchesValueError(exc) == exc = "ValueError"
\* except (ValueError, TypeError): pass
DateCatches(exc) == exc \in {"ValueError", "TypeError"}
\* TickReceiver._extract_date(ts_str): whether it raises, and the day it
\* returns: that of the ISO string, or date.today()
ExtractDateRaises(ts) ==
    /\ Truthy(ts) /\ FromIsoFormatExc(ts) # NoException
    /\ ~DateCatches(FromIsoFormatExc(ts))
ExtractDate(ts) ==
    IF Truthy(ts) /\ FromIsoFormatExc(ts) = NoException THEN ts.date ELSE Today
\* TickPersistence._trade_date(ts_str): whether it raises
TradeDateRaises(ts) ==
    /\ Truthy(ts) /\ FromIsoFormatExc(ts) # NoException
    /\ ~DateCatches(FromIsoFormatExc(ts))
\* A writer that stamps every row with the day of the write.
TradeDateOfWrite(ts) == Today
\* TickPersistence._trade_date(ts_str): the day of the ISO string, or today
\* when it is empty or does not parse
TradeDate(ts) == IF ts.kind = "iso" THEN ts.date ELSE Today

\* The order-book depth of a tick: the prices of its buy and of its sell
\* levels in the order given, or no "depth" member at all.
Depth(buy, sell) == [present |-> TRUE, buy |-> buy, sell |-> sell]
NoDepth == [present |-> FALSE, buy |-> <<>>, sell |-> <<>>]
\* A payload without an "instrument_token" member
NoToken == -1

\* A tick without any member set (last_price and volume_traded 0: absent)
NoTick == [instrument_token |-> 0, tradingsymbol |-> NoSymbol, name |-> "",
           exchange_timestamp |-> NoTimestamp, received_at |-> NoTimestamp,
           last_price |-> 0, volume_traded |-> 0, depth |-> NoDepth,
           serializable |-> TRUE, well_formed |-> TRUE]

\* A tick as the feed delivers it: its token, whether json.dumps can encode
\* it, and whether its ohlc/depth members are the dicts the writer expects.
InboundTokens == {0, 1, 7}
InboundTicks ==
    {[NoTick EXCEPT !.instrument_token = t,
                    !.exchange_timestamp = FeedTime(1, 1)] : t \in InboundTokens}
    \cup {[NoTick EXCEPT !.instrument_token = 1,
                         !.exchange_timestamp = FeedTime(1, 1),
                         !.serializable = FALSE]}
TickBatches == BoundedSeq(InboundTicks, MaxBatch) \ {<<>>}

\* The data field of a stream entry: missing/empty, not JSON, or a JSON tick.
EmptyData == [kind |-> "empty", tick |-> NoTick]
GarbageData == [kind |-> "garbage", tick |-> NoTick]
\* RedisPublisher._serialize_tick: json.dumps(tick, default=_default).encode()
SerializeTick(tick) ==
    [kind |-> "json",
     tick |-> [tick EXCEPT !.exchange_timestamp = IsoFormat(@)]]
\* json.loads(raw_data): the tick, or a ValueError
JsonLoadsRaises(data) == data.kind # "json"
JsonLoads(data) == data.tick

\* ------------------------------------------------------------ connector.py
ExceptionKinds == {"RedisError", "TypeError"}

\* A new connection that takes over the count of the first one held.
NewSocketCarriesCount(idx, bucket) ==
    [socket_id |-> idx, tokens |-> bucket, connected |-> FALSE,
     tick_count |-> IF sockets = <<>> THEN 0 ELSE conns[sockets[1]].tick_count,
     last_tick_time |-> clock, live |-> TRUE,
     close_raised |-> FALSE, errors |-> 0]
\* SocketConnection.__init__
NewSocket(idx, bucket) ==
    [socket_id |-> idx, tokens |-> bucket, connected |-> FALSE,
     tick_count |-> 0, last_tick_time |-> clock, live |-> TRUE,
     close_raised |-> FALSE, errors |-> 0]

\* _on_ticks, the enrichment of one tick
Enrich(tick, map) ==
    LET token == tick.instrument_token
    IN  IF token \in map
        THEN [tick EXCEPT !.tradingsymbol = ListedSymbol(token), !.name = "listed"]
        ELSE [tick EXCEPT !.tradingsymbol =
                 IF token # 0 THEN TokenSymbol(token) ELSE UnknownSymbol]
EnrichAll(ticks, map) == [i \in DOMAIN ticks |-> Enrich(ticks[i], map)]

\* publish_ticks: catches redis.RedisError only
PublishCatches(exc) == exc = "RedisError"
\* A publisher that sends each XADD as soon as its tick is serialized.
PublishTicksOneByOne(ticks) ==
    LET n == Cardinality({i \in DOMAIN ticks :
                             \A j \in 1..i : ticks[j].serializable})
    IN  IF ~pub_client THEN [stream |-> stream, exc |-> NoException, sent |-> FALSE]
        ELSE IF ~redis_up
        THEN [stream |-> stream, sent |-> FALSE, exc |-> NoException]
        ELSE [stream |-> stream \o [i \in 1..n |-> SerializeTick(ticks[i])],
              sent |-> n = Len(ticks),
              exc |-> IF n = Len(ticks) THEN NoException ELSE "TypeError"]
\* publish_ticks(ticks): what the stream holds afterwards and what it raises;
\* the XADDs are queued in a client-side pipeline and sent by pipe.execute(),
\* which a TypeError of _serialize_tick keeps the call from reaching
PublishTicks(ticks) ==
    IF ~pub_client THEN [stream |-> stream, exc |-> NoException, sent |-> FALSE]
    ELSE IF \E i \in DOMAIN ticks : ~ticks[i].serializable
    THEN [stream |-> stream, sent |-> FALSE,
          exc |-> IF PublishCatches("TypeError") THEN NoException ELSE "TypeError"]
    ELSE IF ~redis_up
    THEN [stream |-> stream, sent |-> FALSE,
          exc |-> IF PublishCatches("RedisError") THEN NoException ELSE "RedisError"]
    ELSE [stream |-> stream \o [i \in DOMAIN ticks |-> SerializeTick(ticks[i])],
          sent |-> TRUE, exc |-> NoException]

\* A plausible slip: the callback catching the stream client's error only.
OnTicksCatchesRedisOnly(exc) == exc = "RedisError"
\* _on_ticks: except Exception
OnTicksCatches(exc) == exc \in ExceptionKinds

ActiveBuckets(buckets) == SelectSeq(buckets, LAMBDA b : Len(b) > 0)

\* start(token_buckets), the loop over the non-empty partitions: connection
\* k is constructed, started and appended; when the construction or the
\* start of connection `fail` raises (fail = 0: none does), the exception
\* leaves start() and the partitions from `fail` on get no connection
StartLoop(cs, active, fail) ==
    LET made == IF fail = 0 THEN Len(active) ELSE fail - 1
    IN  [sockets |-> [k \in 1..made |-> Len(cs) + k],
         conns |-> cs \o [k \in 1..made |-> NewSocket(k - 1, active[k])]]

\* MultiSocketConnector.start(token_buckets)
Start ==
    LET active == ActiveBuckets(token_buckets)
    IN  /\ dist_done
        /\ Len(conns) + Len(active) <= MaxConns
        /\ \E fail \in 0..Len(active) :
              /\ sockets' = StartLoop(conns, active, fail).sockets
              /\ conns' = StartLoop(conns, active, fail).conns
              /\ start_exc' = fail
        /\ UNCHANGED <<clock, callbacks, cb, pipes, pub_client>>

\* SocketConnection.stop for every held socket: kws.close() inside
\* try/except Exception (raised: the sockets whose close() raises), then
\* _connected = False
StopSockets(cs, held, raised) ==
    [c \in DOMAIN cs |->
        IF c \in Range(held)
        THEN [cs[c] EXCEPT !.live = FALSE, !.connected = FALSE,
                           !.close_raised = c \in raised]
        ELSE cs[c]]

\* MultiSocketConnector.stop(): s.stop() for every socket, sockets.clear()
Stop ==
    /\ dist_done
    /\ \E raised \in SUBSET Range(sockets) :
          conns' = StopSockets(conns, sockets, raised)
    /\ sockets' = <<>>
    /\ UNCHANGED <<clock, callbacks, cb, pipes, start_exc, pub_client>>

\* A reset that starts the new connections first and stops afterwards.
ReconnectAllStartFirst ==
    LET active == ActiveBuckets(token_buckets)
    IN  /\ dist_done
        /\ Len(conns) + Len(active) <= MaxConns
        /\ \E raised \in SUBSET (Range(sockets) \cup (Len(conns) + 1)..MaxConns) :
              LET started == StartLoop(conns, active, 0)
              IN  /\ conns' = StopSockets(started.conns, sockets \o started.sockets,
                                          raised \cap DOMAIN started.conns)
                  /\ sockets' = <<>>
                  /\ start_exc' = 0
        /\ UNCHANGED <<clock, callbacks, cb, pipes, pub_client>>
\* MultiSocketConnector.reconnect_all(token_buckets): stop(), sleep, start()
ReconnectAll ==
    LET active == ActiveBuckets(token_buckets)
    IN  /\ dist_done
        /\ Len(conns) + Len(active) <= MaxConns
        /\ \E raised \in SUBSET Range(sockets), fail \in 0..Len(active) :
              LET stopped == StopSockets(conns, sockets, raised)
              IN  /\ sockets' = StartLoop(stopped, active, fail).sockets
                  /\ conns' = StartLoop(stopped, active, fail).conns
                  /\ start_exc' = fail
        /\ UNCHANGED <<clock, callbacks, cb, pipes, pub_client>>

\* total_tick_count: sum(s.tick_count for s in self.sockets)
RECURSIVE SumTickCounts(_)
SumTickCounts(held) ==
    IF held = <<>> THEN 0
    ELSE conns[Head(held)].tick_count + SumTickCounts(Tail(held))
TotalTickCount == SumTickCounts(sockets)

\* A health value that wants at least one connection.
AllConnectedSome ==
    sockets # <<>> /\ \A k \in DOMAIN sockets : conns[sockets[k]].connected
\* all_connected: all(s.is_connected for s in self.sockets)
AllConnected == \A k \in DOMAIN sockets : conns[sockets[k]].connected

\* A health value read off the first connection only.
LastTickTimeOfFirst ==
    IF sockets = <<>> THEN clock ELSE conns[sockets[1]].last_tick_time
\* last_tick_time: time.time() without sockets, else the max over them
LastTickTime ==
    IF sockets = <<>> THEN clock
    ELSE CHOOSE t \in {conns[sockets[k]].last_tick_time : k \in DOMAIN sockets} :
             \A k \in DOMAIN sockets : conns[sockets[k]].last_tick_time <= t

\* _on_connect
OnConnect(c) ==
    /\ conns[c].live /\ ~conns[c].connected
    /\ conns' = [conns EXCEPT ![c].connected = TRUE]
    /\ UNCHANGED <<sockets, clock, callbacks, cb, pipes, start_exc, pub_client>>

\* _on_close
OnClose(c) ==
    /\ conns[c].live /\ conns[c].connected
    /\ conns' = [conns EXCEPT ![c].connected = FALSE]
    /\ UNCHANGED <<sockets, clock, callbacks, cb, pipes, start_exc, pub_client>>

\* _on_error: logs the error (errors: the error events logged so far)
OnError(c) ==
    /\ conns[c].live /\ conns[c].errors < MaxErrors
    /\ conns' = [conns EXCEPT ![c].errors = @ + 1]
    /\ UNCHANGED <<sockets, clock, callbacks, cb, pipes, start_exc, pub_client>>

\* _on_ticks(ws, ticks)
OnTicks(c, ticks) ==
    LET enriched == EnrichAll(ticks, TokenToSymbol(instruments))
        res == PublishTicks(enriched)
        escaped == IF res.exc = NoException \/ OnTicksCatches(res.exc)
                   THEN NoException ELSE res.exc
    IN  /\ conns[c].live /\ conns[c].connected
        /\ callbacks < MaxCallbacks
        /\ callbacks' = callbacks + 1
        /\ conns' = [conns EXCEPT ![c].tick_count = @ + Len(ticks),
                                  ![c].last_tick_time = clock]
        /\ stream' = res.stream
        /\ cb' = [sock |-> c, ticks |-> enriched, sent |-> res.sent,
                  escaped |-> escaped, before |-> stream,
                  up |-> redis_up /\ pub_client]
        /\ UNCHANGED <<sockets, clock, pipes, start_exc, pub_client, redis_up, outages>>

\* A pipeline filled from the end of the batch.
PipelineReversed(ticks) ==
    [i \in DOMAIN ticks |-> SerializeTick(ticks[Len(ticks) + 1 - i])]
\* publish_ticks: the pipeline, one XADD per tick in the order of the batch
Pipeline(ticks) == [i \in DOMAIN ticks |-> SerializeTick(ticks[i])]

\* The next n ticks of connection c's socket: the token the connection is
\* subscribed to, numbered by their time of arrival
SocketTicks(c, n) ==
    [k \in 1..n |->
        [NoTick EXCEPT !.instrument_token = conns[c].tokens[1],
                       !.exchange_timestamp = FeedTime(1, conns[c].tick_count + k)]]

\* _on_ticks(ws, ticks) followed command by command: the callback enriches
\* the batch and publish_ticks sends the pipeline (pipe.execute()); the
\* callback's thread waits for the replies, so a connection has one pipeline
\* in flight at most
OnTicksSend(c, n) ==
    LET enriched == EnrichAll(SocketTicks(c, n), TokenToSymbol(instruments))
    IN  /\ conns[c].live /\ conns[c].connected
        /\ pipes[c] = <<>>
        /\ conns[c].tick_count + n <= MaxPipeTicks
        /\ conns' = [conns EXCEPT ![c].tick_count = @ + n,
                                  ![c].last_tick_time = clock]
        /\ pipes' = IF pub_client /\ redis_up
                    THEN [pipes EXCEPT ![c] = Pipeline(enriched)]
                    ELSE pipes
        /\ UNCHANGED <<sockets, clock, callbacks, cb, start_exc, pub_client,
                       streamVars>>

\* the stream server applies the next command of connection c's pipeline
ServerApply(c) ==
    /\ pipes[c] # <<>> /\ redis_up
    /\ stream' = Append(stream, Head(pipes[c]))
    /\ pipes' = [pipes EXCEPT ![c] = Tail(@)]
    /\ UNCHANGED <<sockets, conns, clock, callbacks, cb, start_exc, pub_client,
                   redis_up, outages>>

\* the connection to the stream is lost with commands outstanding:
\* pipe.execute() raises redis.RedisError, the rest of the batch is dropped
PipeLost(c) ==
    /\ pipes[c] # <<>> /\ ~redis_up
    /\ pipes' = [pipes EXCEPT ![c] = <<>>]
    /\ UNCHANGED <<sockets, conns, clock, callbacks, cb, start_exc, pub_client,
                   streamVars>>

\* RedisPublisher.connect()
PublisherConnect ==
    /\ ~pub_client /\ redis_up
    /\ pub_client' = TRUE
    /\ UNCHANGED <<sockets, conns, clock, callbacks, cb, pipes, start_exc>>

\* time passes
Advance ==
    /\ clock < MaxClock
    /\ clock' = clock + 1
    /\ UNCHANGED <<sockets, conns, callbacks, cb, pipes, start_exc, pub_client>>

\* the stream server becomes unreachable / reachable again
RedisDown ==
    /\ redis_up /\ outages < MaxOutages
    /\ redis_up' = FALSE /\ outages' = outages + 1
    /\ UNCHANGED stream
RedisUp ==
    /\ ~redis_up
    /\ redis_up' = TRUE
    /\ UNCHANGED <<outages, stream>>

\* ------------------------------------------------- receiver.py, consumption
\* Entries a producer may append: a listed tick, a tick without a symbol, a
\* tick whose "ohlc" member is not an object (persist_ticks raises
\* AttributeError reading it), an entry without data, an entry that is not JSON.
GoodTick == [NoTick EXCEPT !.instrument_token = 1,
                           !.tradingsymbol = ListedSymbol(1), !.name = "listed",
                           !.exchange_timestamp = FeedTime(1, 1),
                           !.last_price = 1, !.volume_traded = 1]
\* the next tick of the same instrument
NextTick == [GoodTick EXCEPT !.exchange_timestamp = FeedTime(1, 2),
                             !.last_price = 2, !.volume_traded = 2]
BareTick == [NoTick EXCEPT !.instrument_token = 7]
PoisonTick == [GoodTick EXCEPT !.well_formed = FALSE]
ConsumePayloads ==
    {SerializeTick(GoodTick), SerializeTick(NextTick), SerializeTick(BareTick),
     EmptyData, GarbageData}
FlushPayloads == {SerializeTick(GoodTick), SerializeTick(PoisonTick)}
\* Payloads that differ in the members the rows are made of: depth on both
\* sides, on one side or absent; the timestamp an ISO string, empty, absent,
\* no ISO date or a number; the symbol listed, absent or the empty string;
\* the token present or absent.
DepthTick == [GoodTick EXCEPT !.depth = Depth(<<5, 4>>, <<6>>)]
BuyOnlyTick == [NextTick EXCEPT !.depth = Depth(<<5>>, <<>>),
                                !.exchange_timestamp = EmptyTimestamp]
TokenlessTick == [NoTick EXCEPT !.instrument_token = NoToken]
EmptySymbolTick == [NoTick EXCEPT !.instrument_token = 1,
                                  !.tradingsymbol = EmptySymbol,
                                  !.exchange_timestamp = NumberTimestamp]
BadTimeTick == [GoodTick EXCEPT !.exchange_timestamp = BadTimestamp]
RowPayloads ==
    {SerializeTick(DepthTick), SerializeTick(BuyOnlyTick), SerializeTick(BareTick),
     SerializeTick(TokenlessTick), SerializeTick(EmptySymbolTick),
     SerializeTick(BadTimeTick)}

Writers == {"flush", "stop"}
IdleWrite == [rows |-> <<>>, idx |-> 0, call |-> 0, res |-> "none", stale |-> FALSE]
\* initialize_db: self._conn = sqlite3.connect(...) under a persist_ticks call
\* in progress, whose cursor stays on the connection it was made from
CursorsLeftBehind ==
    [w \in Writers |-> IF writes[w].res = "busy"
                       THEN [writes[w] EXCEPT !.stale = TRUE] ELSE writes[w]]

\* XADD by a producer
XAdd(payloads) ==
    /\ redis_up /\ Len(stream) < MaxEntries
    /\ \E d \in payloads : stream' = Append(stream, d)
    /\ UNCHANGED <<redis_up, outages>>

\* _consume_loop: xreadgroup(streams={stream: ">"}, count=100, block=1000)
XReadGroup ==
    /\ cpc = "read" /\ running /\ spc = "idle"
    /\ IF ~redis_up
       THEN /\ cpc' = "reconnect"
            /\ UNCHANGED <<inhand, polls, last_delivered, pending>>
       ELSE IF last_delivered = Len(stream)
       THEN /\ polls' = 1 - polls
            /\ UNCHANGED <<cpc, inhand, last_delivered, pending>>
       ELSE /\ inhand' = [i \in 1..(Len(stream) - last_delivered) |-> last_delivered + i]
            /\ pending' = pending \cup (last_delivered + 1)..Len(stream)
            /\ last_delivered' = Len(stream)
            /\ cpc' = "process"
            /\ UNCHANGED polls
    /\ UNCHANGED <<acked, processed, crashes, ticks_processed, latest, history, active_symbols>>

\* _process_entry: the symbol the tick is stored and buffered under
\* (tick.get("tradingsymbol", "TOKEN_%d" % tick.get("instrument_token", 0)))
BufferedSymbol(tick) ==
    IF tick.tradingsymbol # NoSymbol THEN tick.tradingsymbol
    ELSE TokenSymbol(IF tick.instrument_token = NoToken THEN 0
                     ELSE tick.instrument_token)

\* _process_entry raises on this entry: json.loads on data that is not JSON,
\* or an exception leaving _extract_date
ProcessRaises(data) ==
    /\ data.kind # "empty"
    /\ \/ JsonLoadsRaises(data)
       \/ ExtractDateRaises(JsonLoads(data).exchange_timestamp)

\* _store_in_redis: the hash written to latest:{symbol} (str() of the tick's
\* members; 0 stands for a member the tick lacks)
Snapshot(sym, tick) ==
    [sym |-> sym, last_price |-> tick.last_price, volume |-> tick.volume_traded,
     exchange_timestamp |-> tick.exchange_timestamp]

\* A processing step that counts the entry before it looks at its data.
ProcessEntryCountsFirst ==
    LET e == Head(inhand)
        data == stream[e]
        tick == JsonLoads(data)
        sym == BufferedSymbol(tick)
    IN  /\ cpc = "process" /\ spc = "idle" /\ lock = "free"
        /\ cpc' = "ack"
        /\ processed' = processed \cup {e}
        /\ IF data.kind = "empty" \/ JsonLoadsRaises(data)
           THEN /\ ticks_processed' = ticks_processed + 1
                /\ UNCHANGED <<latest, history, active_symbols, buffer>>
           ELSE /\ ticks_processed' = ticks_processed + 1
                /\ IF ProcessRaises(data)
                   THEN UNCHANGED <<latest, history, active_symbols, buffer>>
                   ELSE /\ IF redis_up
                           THEN /\ latest' = {l \in latest : l.sym # sym}
                                             \cup {Snapshot(sym, tick)}
                                /\ history' = history \cup {e}
                                /\ active_symbols' = active_symbols \cup
                                      {[date |-> ExtractDate(tick.exchange_timestamp),
                                        sym |-> sym]}
                           ELSE UNCHANGED <<latest, history, active_symbols>>
                        /\ buffer' = Append(buffer,
                              [eid |-> e,
                               tick |-> [tick EXCEPT !.tradingsymbol = sym,
                                                     !.received_at = Now]])
        /\ UNCHANGED <<inhand, polls, crashes, last_delivered, pending, acked>>
\* _process_entry(entry_id, fields), with _store_in_redis: the pipeline is
\* applied when the store answers; a redis.RedisError is logged and the tick
\* buffered all the same
ProcessEntry ==
    LET e == Head(inhand)
        data == stream[e]
        tick == JsonLoads(data)
        sym == BufferedSymbol(tick)
    IN  /\ cpc = "process" /\ spc = "idle" /\ lock = "free"
        /\ cpc' = "ack"
        /\ processed' = processed \cup {e}
        /\ IF data.kind = "empty" \/ JsonLoadsRaises(data)
           THEN UNCHANGED <<ticks_processed, latest, history, active_symbols, buffer>>
           ELSE /\ ticks_processed' = ticks_processed + 1
                /\ IF ProcessRaises(data)
                   THEN UNCHANGED <<latest, history, active_symbols, buffer>>
                   ELSE /\ IF redis_up
                           THEN /\ latest' = {l \in latest : l.sym # sym}
                                             \cup {Snapshot(sym, tick)}
                                /\ history' = history \cup {e}
                                /\ active_symbols' = active_symbols \cup
                                      {[date |-> ExtractDate(tick.exchange_timestamp),
                                        sym |-> sym]}
                           ELSE UNCHANGED <<latest, history, active_symbols>>
                        /\ buffer' = Append(buffer,
                              [eid |-> e,
                               tick |-> [tick EXCEPT !.tradingsymbol = sym,
                                                     !.received_at = Now]])
        /\ UNCHANGED <<inhand, polls, crashes, last_delivered, pending, acked>>

\* A plausible slip: acknowledging as soon as the entry is taken up.
XAckEarly ==
    LET e == Head(inhand)
    IN  /\ cpc \in {"process", "ack"} /\ spc = "idle" /\ redis_up
        /\ pending' = pending \ {e}
        /\ acked' = acked \cup {e}
        /\ IF cpc = "ack"
           THEN /\ inhand' = Tail(inhand)
                /\ cpc' = IF Tail(inhand) = <<>> THEN "read" ELSE "process"
           ELSE UNCHANGED <<inhand, cpc>>
        /\ UNCHANGED <<polls, crashes, ticks_processed, latest, history, active_symbols,
                       last_delivered, processed>>

\* An acknowledgment kept for the entries whose processing succeeded; a
\* failed entry stays in hand and is tried again.
XAckOnSuccess ==
    LET e == Head(inhand)
    IN  /\ cpc = "ack" /\ spc = "idle"
        /\ IF ~redis_up
           THEN /\ inhand' = <<>>
                /\ cpc' = "reconnect"
                /\ UNCHANGED <<pending, acked>>
           ELSE IF ProcessRaises(stream[e])
           THEN /\ cpc' = "process"
                /\ UNCHANGED <<pending, acked, inhand>>
           ELSE /\ pending' = pending \ {e}
                /\ acked' = acked \cup {e}
                /\ inhand' = Tail(inhand)
                /\ cpc' = IF Tail(inhand) = <<>> THEN "read" ELSE "process"
        /\ UNCHANGED <<polls, crashes, ticks_processed, latest, history, active_symbols,
                       last_delivered, processed>>

\* _consume_loop: xack(stream, group, entry_id) after the processing attempt
XAck ==
    LET e == Head(inhand)
    IN  /\ cpc = "ack" /\ spc = "idle"
        /\ IF redis_up
           THEN /\ pending' = pending \ {e}
                /\ acked' = acked \cup {e}
                /\ inhand' = Tail(inhand)
                /\ cpc' = IF Tail(inhand) = <<>> THEN "read" ELSE "process"
           ELSE /\ inhand' = <<>>
                /\ cpc' = "reconnect"
                /\ UNCHANGED <<pending, acked>>
        /\ UNCHANGED <<polls, crashes, ticks_processed, latest, history, active_symbols,
                       last_delivered, processed>>

\* A loop that ends when the reconnect attempt fails.
ReconnectOnce ==
    /\ cpc = "reconnect" /\ spc = "idle"
    /\ cpc' = IF redis_up THEN "read" ELSE "stopped"
    /\ IF redis_up
       THEN conn' = "open" /\ txn' = <<>> /\ writes' = CursorsLeftBehind
       ELSE UNCHANGED <<conn, txn, writes>>
    /\ UNCHANGED <<inhand, polls, crashes, ticks_processed, latest, history, active_symbols>>

\* _consume_loop, except redis.ConnectionError: sleep, connect(); connect()
\* pings, re-creates the group (BUSYGROUP ignored) and re-opens the store:
\* initialize_db binds self._conn to a new connection, the old one living on
\* only under the cursors made from it, its uncommitted rows never committed
Reconnect ==
    /\ cpc = "reconnect" /\ spc = "idle"
    /\ cpc' = "read"
    /\ IF redis_up
       THEN conn' = "open" /\ txn' = <<>> /\ writes' = CursorsLeftBehind
       ELSE UNCHANGED <<conn, txn, writes>>
    /\ UNCHANGED <<inhand, polls, crashes, ticks_processed, latest, history, active_symbols>>

\* the receiver process dies: everything it held in memory is gone
Crash ==
    /\ cpc # "down" /\ crashes < MaxCrashes
    /\ crashes' = crashes + 1
    /\ cpc' = "down" /\ inhand' = <<>> /\ ticks_processed' = 0
    /\ buffer' = <<>> /\ txn' = <<>> /\ conn' = "none"
    /\ UNCHANGED <<polls, latest, history, active_symbols>>

\* run_receiver.main: connect() and start() of a new process
Restart ==
    /\ cpc = "down" /\ redis_up
    /\ cpc' = "read" /\ conn' = "open"
    /\ UNCHANGED <<inhand, polls, crashes, ticks_processed, latest, history, active_symbols,
                   buffer, txn>>

\* ------------------------------------------------ consumer group creation
\* XGROUP CREATE stream group 0 MKSTREAM, the server's reply: an error of its
\* own (fault, e.g. WRONGTYPE), BUSYGROUP when the group exists, else OK
XGroupCreateReplies == {"OK", "BUSYGROUP", "WRONGTYPE"}
XGroupCreate(g, fault) ==
    IF fault # "none" THEN fault
    ELSE IF g.exists THEN "BUSYGROUP" ELSE "OK"
\* A handler that swallows every ResponseError.
IgnoresEveryGroupError(reply) == TRUE
\* except redis.ResponseError: re-raised unless "BUSYGROUP" is in its text
IgnoresGroupError(reply) == reply = "BUSYGROUP"
\* the call as a whole: the group afterwards and the exception leaving it
CreateGroup(site, reply) ==
    [exists |-> group.exists \/ reply = "OK", calls |-> group.calls + 1,
     site |-> site, reply |-> reply,
     exc |-> IF reply = "OK" \/ IgnoresGroupError(reply) THEN NoException
             ELSE reply]
\* a group just created has cursor 0 and no pending entries
CreatedCursor(reply) ==
    /\ last_delivered' = IF reply = "OK" THEN 0 ELSE last_delivered
    /\ pending' = IF reply = "OK" THEN {} ELSE pending

\* RedisPublisher.ensure_consumer_group(group_name)
EnsureConsumerGroup ==
    /\ pub_client /\ redis_up /\ group.calls < MaxCreateCalls
    /\ \E fault \in {"none", "WRONGTYPE"} :
          LET reply == XGroupCreate(group, fault)
          IN  /\ group' = CreateGroup("publisher", reply)
              /\ CreatedCursor(reply)
    /\ UNCHANGED <<acked, processed>>

\* TickReceiver.connect() of a receiver being started: ping, xgroup_create,
\* initialize_db; run_receiver.main goes on to start() unless connect raised
Connect ==
    /\ cpc = "down" /\ redis_up /\ group.calls < MaxCreateCalls
    /\ \E fault \in {"none", "WRONGTYPE"} :
          LET reply == XGroupCreate(group, fault)
          IN  /\ group' = CreateGroup("receiver", reply)
              /\ CreatedCursor(reply)
              /\ IF CreateGroup("receiver", reply).exc = NoException
                 THEN cpc' = "read" /\ conn' = "open"
                 ELSE UNCHANGED <<cpc, conn>>
    /\ UNCHANGED <<acked, processed, inhand, polls, crashes, ticks_processed,
                   latest, history, active_symbols, buffer, txn>>

\* ---------------------------------------------------------- persistence.py
WriteResults == {"committed", "rolledback", "raised"}
Eids(rows) == {rows[i].eid : i \in DOMAIN rows}

\* A writer that opens the store again when its connection was closed.
StartWriteReopens(w, rows) ==
    /\ ncalls' = ncalls + 1
    /\ call_len' = Append(call_len, Len(rows))
    /\ conn' = "open"
    /\ writes' = [writes EXCEPT ![w] =
                    [rows |-> rows, idx |-> 0, call |-> ncalls + 1,
                     res |-> "busy", stale |-> FALSE]]
\* persist_ticks(ticks_data), up to the cursor: opens the store when there is
\* no connection object; cursor() on a closed connection raises
StartWrite(w, rows) ==
    /\ ncalls' = ncalls + 1
    /\ call_len' = Append(call_len, Len(rows))
    /\ conn' = IF conn = "none" THEN "open" ELSE conn
    /\ writes' = [writes EXCEPT ![w] =
                    [rows |-> rows, idx |-> 0, call |-> ncalls + 1,
                     res |-> IF conn = "closed" THEN "raised" ELSE "busy",
                     stale |-> FALSE]]

\* persist_ticks, the rows of tick_depths for one side: level numbers from
\* enumerate()
SideRowsFromOne(side, levels) ==
    [i \in DOMAIN levels |-> [side |-> side, level |-> i, price |-> levels[i]]]
SideRows(side, levels) ==
    [i \in DOMAIN levels |-> [side |-> side, level |-> i - 1, price |-> levels[i]]]
\* for side in ("buy", "sell"): for level, entry in enumerate(depth.get(side, []))
DepthRows(depth) == SideRows("buy", depth.buy) \o SideRows("sell", depth.sell)

\* persist_ticks: the row of ticks and the rows of tick_depths linked to it
TickRow(call, item) ==
    [call |-> call, eid |-> item.eid,
     instrument_token |-> item.tick.instrument_token,
     tradingsymbol |-> IF item.tick.tradingsymbol = NoSymbol THEN EmptySymbol
                       ELSE item.tick.tradingsymbol,
     received_at |-> IF item.tick.received_at.kind = "absent" THEN Now
                     ELSE item.tick.received_at,
     trade_date |-> TradeDate(item.tick.exchange_timestamp),
     depths |-> DepthRows(item.tick.depth)]

\* instrument_token INTEGER NOT NULL: tick.get("instrument_token") is None
NotNullViolated(tick) == tick.instrument_token = NoToken

\* persist_ticks, one pass of the loop over the batch: the INSERT of one tick
\* and of its depth rows. A tick whose members are not the dicts expected
\* raises before the INSERT and outside sqlite3.Error: nothing is rolled back.
\* A sqlite3.Error (a constraint of the table, or a transient one) is caught,
\* the transaction rolled back and the count so far returned. On a closed
\* connection the rollback raises as well. The INSERT goes through the
\* call's cursor: once self._conn has been replaced it lands on the old
\* connection, out of reach of self._conn.commit().
InsertRow(w) ==
    LET wr == writes[w]
        row == wr.rows[wr.idx + 1]
        raises == ~row.tick.well_formed \/ TradeDateRaises(row.tick.exchange_timestamp)
    IN  /\ wr.res = "busy" /\ wr.idx < Len(wr.rows) /\ spc # "done"
        /\ \/ /\ conn # "open"
              /\ writes' = [writes EXCEPT ![w].res = "raised"]
              /\ UNCHANGED <<txn, store_errors>>
           \/ /\ conn = "open" /\ raises
              /\ writes' = [writes EXCEPT ![w].res = "raised"]
              /\ UNCHANGED <<txn, store_errors>>
           \/ /\ conn = "open" /\ ~raises /\ NotNullViolated(row.tick)
              /\ txn' = <<>>
              /\ writes' = [writes EXCEPT ![w].res = "rolledback"]
              /\ UNCHANGED store_errors
           \/ /\ conn = "open" /\ ~raises /\ ~NotNullViolated(row.tick)
              /\ txn' = IF wr.stale THEN txn ELSE Append(txn, TickRow(wr.call, row))
              /\ writes' = [writes EXCEPT ![w].idx = @ + 1]
              /\ UNCHANGED store_errors
           \/ /\ conn = "open" /\ ~raises
              /\ store_errors < MaxStoreErrors
              /\ store_errors' = store_errors + 1
              /\ txn' = <<>>
              /\ writes' = [writes EXCEPT ![w].res = "rolledback"]
        /\ UNCHANGED <<conn, db, ncalls, call_len>>

\* persist_ticks, after the loop: self._conn.commit(), on the connection's
\* one transaction
Commit(w) ==
    LET wr == writes[w]
    IN  /\ wr.res = "busy" /\ wr.idx = Len(wr.rows) /\ spc # "done"
        /\ \/ /\ conn # "open"
              /\ writes' = [writes EXCEPT ![w].res = "raised"]
              /\ UNCHANGED <<txn, db, store_errors>>
           \/ /\ conn = "open"
              /\ db' = db \o txn
              /\ txn' = <<>>
              /\ writes' = [writes EXCEPT ![w].res = "committed"]
              /\ UNCHANGED store_errors
           \/ /\ conn = "open" /\ store_errors < MaxStoreErrors
              /\ store_errors' = store_errors + 1
              /\ txn' = <<>>
              /\ writes' = [writes EXCEPT ![w].res = "rolledback"]
              /\ UNCHANGED db
        /\ UNCHANGED <<conn, ncalls, call_len>>

\* ------------------------------------------------ receiver.py, flush thread
\* A loop that goes on to its next sleep whatever the flag says.
FlushLoopIgnoresFlag ==
    /\ fpc = "loop" /\ spc # "done"
    /\ fpc' = "sleep"
    /\ UNCHANGED <<buffer, running, batch, lock, storeVars>>
\* _periodic_persist: while self._running
FlushLoop ==
    /\ fpc = "loop" /\ spc # "done"
    /\ fpc' = IF running THEN "sleep" ELSE "final"
    /\ UNCHANGED <<buffer, running, batch, lock, storeVars>>

\* _periodic_persist: after the sleep, swap the buffer out under the lock and
\* hand the batch to persist_ticks
Swap ==
    /\ fpc = "sleep" /\ lock = "free" /\ spc # "done"
    /\ IF buffer = <<>>
       THEN /\ fpc' = "loop"
            /\ UNCHANGED <<buffer, batch, storeVars>>
       ELSE /\ ncalls < MaxFlushCalls
            /\ batch' = buffer
            /\ buffer' = <<>>
            /\ fpc' = "write"
            /\ StartWrite("flush", buffer)
            /\ UNCHANGED <<txn, db, store_errors>>
    /\ UNCHANGED <<running, lock>>

\* A handler that logs the failure and lets the batch go.
RequeueDropped == buffer
\* A failed batch put back behind the newer ticks.
RequeueAtTail == buffer \o batch
\* _periodic_persist, except Exception: batch + self._pending_persist_buffer
Requeue == batch \o buffer

\* _periodic_persist, after persist_ticks: log the count it returned, or, when
\* it raised, put the batch back under the lock
FlushAfter ==
    /\ fpc = "write" /\ writes["flush"].res \in WriteResults /\ spc # "done"
    /\ IF writes["flush"].res = "raised"
       THEN lock = "free" /\ buffer' = Requeue
       ELSE UNCHANGED buffer
    /\ batch' = <<>>
    /\ fpc' = "loop"
    /\ writes' = [writes EXCEPT !["flush"] = IdleWrite]
    /\ UNCHANGED <<running, lock, conn, txn, db, ncalls, call_len, store_errors>>

\* _flush_remaining on the flush thread: persist_ticks under the lock
FlushFinal ==
    /\ fpc = "final" /\ lock = "free" /\ spc # "done"
    /\ IF buffer = <<>>
       THEN /\ fpc' = "done"
            /\ UNCHANGED <<lock, storeVars>>
       ELSE /\ lock' = "flush"
            /\ fpc' = "finalwrite"
            /\ StartWrite("flush", buffer)
            /\ UNCHANGED <<txn, db, store_errors>>
    /\ UNCHANGED <<buffer, running, batch>>

\* _flush_remaining: the buffer is emptied unless persist_ticks raised
FlushFinalAfter ==
    /\ fpc = "finalwrite" /\ writes["flush"].res \in WriteResults /\ spc # "done"
    /\ buffer' = IF writes["flush"].res = "raised" THEN buffer ELSE <<>>
    /\ lock' = "free"
    /\ fpc' = "done"
    /\ writes' = [writes EXCEPT !["flush"] = IdleWrite]
    /\ UNCHANGED <<running, batch, conn, txn, db, ncalls, call_len, store_errors>>

\* ------------------------------------------------------ receiver.py, stop()
\* stop(): self._running = False
StopBegin ==
    /\ spc = "idle"
    /\ running' = FALSE
    /\ spc' = "join"
    /\ at_stop' = Eids(buffer) \cup Eids(batch)
    /\ stop_calls' = 1
    /\ UNCHANGED <<buffer, fpc, batch, lock, storeVars>>

\* stop(): self._persist_thread.join(timeout=10) returns when the thread has
\* ended, or after 10 s while the thread sleeps, writes or waits
StopJoin ==
    /\ spc = "join"
    /\ fpc \in {"done", "sleep", "write", "finalwrite"}
    /\ spc' = "flush"
    /\ UNCHANGED <<at_stop, stop_calls, flushVars, storeVars>>

\* stop(): _flush_remaining on the calling thread
StopFlush ==
    /\ spc = "flush" /\ lock = "free"
    /\ IF buffer = <<>>
       THEN /\ spc' = "close"
            /\ UNCHANGED <<lock, storeVars>>
       ELSE /\ lock' = "stop"
            /\ spc' = "flushwrite"
            /\ StartWrite("stop", buffer)
            /\ UNCHANGED <<txn, db, store_errors>>
    /\ UNCHANGED <<at_stop, stop_calls, buffer, running, fpc, batch>>

StopFlushAfter ==
    /\ spc = "flushwrite" /\ writes["stop"].res \in WriteResults
    /\ buffer' = IF writes["stop"].res = "raised" THEN buffer ELSE <<>>
    /\ lock' = "free"
    /\ spc' = "close"
    /\ writes' = [writes EXCEPT !["stop"] = IdleWrite]
    /\ UNCHANGED <<at_stop, stop_calls, running, fpc, batch, conn, txn, db, ncalls, call_len,
                   store_errors>>

\* TickPersistence.close(): 'if self._conn: self._conn.close()' raises on
\* no state of the connection, closing a closed connection does nothing
CloseRaises(c) == FALSE

\* stop(): self._persistence.close(); the process then exits
StopClose ==
    /\ spc = "close"
    /\ conn' = IF conn = "open" THEN "closed" ELSE conn
    /\ txn' = <<>>
    /\ spc' = IF CloseRaises(conn) THEN "raised" ELSE "done"
    /\ UNCHANGED <<at_stop, stop_calls, flushVars, db, writes, ncalls, call_len, store_errors>>

\* run_receiver: signal_handler has called stop() and raised SystemExit;
\* main's finally block calls stop() again
StopAgain ==
    /\ spc = "done" /\ stop_calls = 1
    /\ stop_calls' = 2
    /\ running' = FALSE
    /\ spc' = "join"
    /\ UNCHANGED <<at_stop, buffer, fpc, batch, lock, storeVars>>

\* ------------------------------------------------------------ initial values
NoPipes == [c \in 1..MaxConns |-> <<>>]
NoCallback == [sock |-> 0, ticks |-> <<>>, sent |-> FALSE, escaped |-> NoException,
               before |-> <<>>, up |-> FALSE]
DistIdle ==
    /\ instruments = <<>> /\ num_sockets = SocketCap
    /\ token_buckets = <<>> /\ dist_done = FALSE
ConnIdle ==
    /\ sockets = <<>> /\ conns = <<>> /\ clock = 0
    /\ callbacks = 0 /\ cb = NoCallback /\ pipes = NoPipes /\ start_exc = 0 /\ pub_client = TRUE
StreamIdle == redis_up = TRUE /\ outages = 0 /\ stream = <<>>
\* no xgroup_create call made so far, on a stream without the group and on
\* one whose group the receiver has created
NoGroup == [exists |-> FALSE, calls |-> 0, site |-> "none", reply |-> "none",
            exc |-> NoException]
GroupMade == [NoGroup EXCEPT !.exists = TRUE]
GroupIdle ==
    /\ last_delivered = 0 /\ pending = {} /\ acked = {} /\ processed = {}
    /\ group = GroupMade
LoopIdle ==
    /\ cpc = "read" /\ inhand = <<>> /\ polls = 0 /\ crashes = 0
    /\ ticks_processed = 0 /\ latest = {} /\ history = {}
    /\ active_symbols = {}
FlushIdle ==
    /\ buffer = <<>> /\ running = TRUE /\ fpc = "loop" /\ batch = <<>>
    /\ lock = "free"
StoreIdle ==
    /\ conn = "open" /\ txn = <<>> /\ db = <<>>
    /\ writes = [w \in Writers |-> IdleWrite]
    /\ ncalls = 0 /\ call_len = <<>> /\ store_errors = 0
StopIdle == spc = "idle" /\ at_stop = {} /\ stop_calls = 0

\* ---------------------------------------------------------------- SpecDist
\* distribute_tokens applied to every instrument list and socket count
DistInstruments == {Instrument(t, "NIFTY") : t \in Tokens}
InitDist ==
    /\ instruments \in BoundedSeq(DistInstruments, MaxInstruments)
    /\ num_sockets \in 1..MaxNumSockets
    /\ token_buckets = <<>> /\ dist_done = FALSE
    /\ ConnIdle /\ StreamIdle /\ GroupIdle /\ LoopIdle /\ FlushIdle
    /\ StoreIdle /\ StopIdle

\* run_trading_session: token_buckets = distribute_tokens(all_instruments, n)
Distribute ==
    /\ ~dist_done
    /\ token_buckets' = DistributeTokens(instruments, num_sockets)
    /\ dist_done' = TRUE
    /\ UNCHANGED <<instruments, num_sockets, connVars, streamVars, groupVars,
                   createVars, loopVars, flushVars, storeVars, stopVars>>

NextDist == Distribute
SpecDist == InitDist /\ [][NextDist]_vars

\* ---------------------------------------------------------------- SpecConn
\* The coordinator's lifecycle: start(), stop(), reconnect_all() in any order,
\* and the sockets' connect and close callbacks.
\* run_trading_session: the symbols of the command line, in the order given
InitConn ==
    /\ \E symbols \in BoundedSeq(Symbols, MaxSymbols) \ {<<>>} :
           instruments = GetInstrumentsForSymbols(symbols)
    /\ num_sockets \in 1..MaxNumSockets
    /\ token_buckets = <<>> /\ dist_done = FALSE
    /\ ConnIdle
    /\ StreamIdle /\ GroupIdle /\ LoopIdle /\ FlushIdle /\ StoreIdle /\ StopIdle

ConnFrame == UNCHANGED <<distVars, createVars, streamVars, groupVars, loopVars, flushVars,
                         storeVars, stopVars>>
ConnEnvFrame == UNCHANGED <<distVars, createVars, connVars, groupVars, loopVars, flushVars,
                            storeVars, stopVars>>

NextConn ==
    \/ Distribute
    \/ Start /\ ConnFrame
    \/ Stop /\ ConnFrame
    \/ ReconnectAll /\ ConnFrame
    \/ \E c \in DOMAIN conns : OnConnect(c) /\ ConnFrame
    \/ \E c \in DOMAIN conns : OnClose(c) /\ ConnFrame
SpecConn == InitConn /\ [][NextConn]_vars

\* --------------------------------------------------------------- SpecCoord
\* The coordinator on its own: start(), stop() and reconnect_all() called in
\* any order with a list of partitions of the caller's choosing.
PartitionLists == BoundedSeq({<<>>, <<1>>, <<2, 3>>}, MaxPartitions)
InitCoord ==
    /\ instruments = <<>> /\ num_sockets = SocketCap
    /\ token_buckets \in PartitionLists /\ dist_done = TRUE
    /\ ConnIdle
    /\ StreamIdle /\ GroupIdle /\ LoopIdle /\ FlushIdle /\ StoreIdle /\ StopIdle
NextCoord ==
    \/ Start /\ ConnFrame
    \/ Stop /\ ConnFrame
    \/ ReconnectAll /\ ConnFrame
    \/ \E c \in DOMAIN conns : OnConnect(c) /\ ConnFrame
    \/ \E c \in DOMAIN conns : OnClose(c) /\ ConnFrame
    \/ \E c \in DOMAIN conns : OnError(c) /\ ConnFrame
SpecCoord == InitCoord /\ [][NextCoord]_vars

\* ---------------------------------------------------------------- SpecFeed
\* One trading session: the connector is started once and its sockets deliver
\* tick batches while the stream comes and goes.
InitFeed ==
    /\ \E symbols \in BoundedSeq(Symbols, MaxFeedSymbols) \ {<<>>} :
           instruments = GetInstrumentsForSymbols(symbols)
    /\ num_sockets \in 1..MaxFeedSockets
    /\ token_buckets = <<>> /\ dist_done = FALSE
    /\ sockets = <<>> /\ conns = <<>> /\ clock = 0
    /\ callbacks = 0 /\ cb = NoCallback /\ pipes = NoPipes /\ start_exc = 0 /\ pub_client \in BOOLEAN
    /\ StreamIdle /\ GroupIdle /\ LoopIdle /\ FlushIdle /\ StoreIdle /\ StopIdle

\* run_trading_session: _connector.start(token_buckets), once
SessionStart == conns = <<>> /\ Start

NextFeed ==
    \/ Distribute
    \/ SessionStart /\ ConnFrame
    \/ \E c \in DOMAIN conns : OnConnect(c) /\ ConnFrame
    \/ \E c \in DOMAIN conns : OnClose(c) /\ ConnFrame
    \/ \E c \in DOMAIN conns, ticks \in TickBatches :
          OnTicks(c, ticks)
          /\ UNCHANGED <<distVars, createVars, groupVars, loopVars, flushVars, storeVars, stopVars>>
    \/ PublisherConnect /\ ConnFrame
    \/ Advance /\ ConnFrame
    \/ RedisDown /\ ConnEnvFrame
    \/ RedisUp /\ ConnEnvFrame
SpecFeed == InitFeed /\ [][NextFeed]_vars

\* --------------------------------------------------------------- SpecCount
\* One session of the connector with tick callbacks, shutdown and the hard
\* reset: what the coordinator's counters show.
\* batches the feed hands over: one tick, and two with one that cannot be
\* serialized
CountBatches ==
    LET tick == [NoTick EXCEPT !.instrument_token = 1,
                               !.exchange_timestamp = FeedTime(1, 1)]
    IN  {<<tick>>, <<tick, [tick EXCEPT !.serializable = FALSE]>>}
InitCount ==
    /\ \E symbols \in BoundedSeq(Symbols, MaxFeedSymbols) \ {<<>>} :
           instruments = GetInstrumentsForSymbols(symbols)
    /\ num_sockets \in 1..MaxFeedSockets
    /\ token_buckets = DistributeTokens(instruments, num_sockets)
    /\ dist_done = TRUE
    /\ sockets = <<>> /\ conns = <<>> /\ clock = 0
    /\ callbacks = 0 /\ cb = NoCallback /\ pipes = NoPipes /\ start_exc = 0
    /\ pub_client \in BOOLEAN
    /\ StreamIdle /\ GroupIdle /\ LoopIdle /\ FlushIdle /\ StoreIdle /\ StopIdle
NextCount ==
    \/ SessionStart /\ ConnFrame
    \/ Stop /\ ConnFrame
    \/ ReconnectAll /\ ConnFrame
    \/ \E c \in DOMAIN conns : OnConnect(c) /\ ConnFrame
    \/ \E c \in DOMAIN conns, ticks \in CountBatches :
          OnTicks(c, ticks)
          /\ UNCHANGED <<distVars, createVars, groupVars, loopVars, flushVars, storeVars, stopVars>>
SpecCount == InitCount /\ [][NextCount]_vars

\* ---------------------------------------------------------------- SpecPipe
\* One session with two feed connections whose pipelines reach the stream
\* server command by command, interleaved in any way.
InitPipe ==
    /\ instruments = GetInstrumentsForSymbols(<<"NIFTY">>)
    /\ num_sockets = Len(instruments)
    /\ token_buckets = <<>> /\ dist_done = FALSE
    /\ ConnIdle
    /\ StreamIdle /\ GroupIdle /\ LoopIdle /\ FlushIdle /\ StoreIdle /\ StopIdle
PipeFrame == UNCHANGED <<distVars, createVars, groupVars, loopVars, flushVars, storeVars, stopVars>>
NextPipe ==
    \/ Distribute
    \/ SessionStart /\ ConnFrame
    \/ \E c \in DOMAIN conns : OnConnect(c) /\ ConnFrame
    \/ \E c \in DOMAIN conns, n \in 1..MaxBatch : OnTicksSend(c, n) /\ PipeFrame
    \/ \E c \in DOMAIN conns : ServerApply(c) /\ PipeFrame
    \/ \E c \in DOMAIN conns : PipeLost(c) /\ PipeFrame
    \/ RedisDown /\ ConnEnvFrame
    \/ RedisUp /\ ConnEnvFrame
SpecPipe == InitPipe /\ [][NextPipe]_vars

\* ------------------------------------------------------------- SpecConsume
\* The consumption loop against the consumer group, with stream outages and
\* receiver crashes; the flush thread sleeps throughout.
InitConsume ==
    /\ DistIdle /\ ConnIdle /\ StreamIdle /\ GroupIdle /\ LoopIdle
    /\ FlushIdle /\ StoreIdle /\ StopIdle

ConsumeOther == UNCHANGED <<distVars, createVars, connVars, stopVars, running, fpc, batch, lock,
                            db, writes, ncalls, call_len, store_errors>>
NextConsume ==
    \/ XAdd(ConsumePayloads)
       /\ UNCHANGED <<groupVars, loopVars, buffer, conn, txn>> /\ ConsumeOther
    \/ XReadGroup /\ UNCHANGED <<streamVars, buffer, conn, txn>> /\ ConsumeOther
    \/ ProcessEntry /\ UNCHANGED <<streamVars, conn, txn>> /\ ConsumeOther
    \/ XAck /\ UNCHANGED <<streamVars, buffer, conn, txn>> /\ ConsumeOther
    \/ Reconnect /\ UNCHANGED <<streamVars, groupVars, buffer>> /\ ConsumeOther
    \/ Crash /\ UNCHANGED <<streamVars, groupVars>> /\ ConsumeOther
    \/ Restart /\ UNCHANGED <<streamVars, groupVars>> /\ ConsumeOther
    \/ RedisDown /\ UNCHANGED <<groupVars, loopVars, buffer, conn, txn>> /\ ConsumeOther
    \/ RedisUp /\ UNCHANGED <<groupVars, loopVars, buffer, conn, txn>> /\ ConsumeOther
SpecConsume == InitConsume /\ [][NextConsume]_vars

\* The loop keeps running while the process lives, an outage ends, and a
\* crashed receiver is started again.
ConsumerStep ==
    \/ XReadGroup /\ UNCHANGED <<streamVars, buffer, conn, txn>> /\ ConsumeOther
    \/ ProcessEntry /\ UNCHANGED <<streamVars, conn, txn>> /\ ConsumeOther
    \/ XAck /\ UNCHANGED <<streamVars, buffer, conn, txn>> /\ ConsumeOther
    \/ Reconnect /\ UNCHANGED <<streamVars, groupVars, buffer>> /\ ConsumeOther
OutageEnds == RedisUp /\ UNCHANGED <<groupVars, loopVars, buffer, conn, txn>> /\ ConsumeOther
ReceiverRestarts == Restart /\ UNCHANGED <<streamVars, groupVars>> /\ ConsumeOther
SpecConsumeFair ==
    /\ InitConsume /\ [][NextConsume]_vars
    /\ WF_vars(ConsumerStep) /\ WF_vars(OutageEnds) /\ WF_vars(ReceiverRestarts)

\* --------------------------------------------------------------- SpecFlush
\* The receiver with entries waiting in the stream: consumption loop, flush
\* thread, writer and shutdown.
InitFlush ==
    /\ DistIdle /\ ConnIdle /\ GroupIdle /\ LoopIdle
    /\ FlushIdle /\ StoreIdle /\ StopIdle
    /\ redis_up = TRUE /\ outages = 0
    /\ stream \in BoundedSeq(FlushPayloads, MaxEntries) \ {<<>>}

FlushOther == UNCHANGED <<distVars, createVars, connVars, streamVars>>
LoopOnly == UNCHANGED <<running, fpc, batch, lock, storeVars, stopVars>> /\ FlushOther
ThreadOnly == UNCHANGED <<groupVars, loopVars, stopVars>> /\ FlushOther
StopOnly == UNCHANGED <<groupVars, loopVars>> /\ FlushOther
WriteOnly == UNCHANGED <<groupVars, loopVars, flushVars, stopVars>> /\ FlushOther

NextFlush ==
    \/ XReadGroup /\ UNCHANGED buffer /\ LoopOnly
    \/ ProcessEntry /\ LoopOnly
    \/ XAck /\ UNCHANGED buffer /\ LoopOnly
    \/ FlushLoop /\ ThreadOnly
    \/ Swap /\ ThreadOnly
    \/ FlushAfter /\ ThreadOnly
    \/ FlushFinal /\ ThreadOnly
    \/ FlushFinalAfter /\ ThreadOnly
    \/ \E w \in Writers : InsertRow(w) /\ WriteOnly
    \/ \E w \in Writers : Commit(w) /\ WriteOnly
    \/ StopBegin /\ StopOnly
    \/ StopJoin /\ StopOnly
    \/ StopFlush /\ StopOnly
    \/ StopFlushAfter /\ StopOnly
    \/ StopClose /\ StopOnly
SpecFlush == InitFlush /\ [][NextFlush]_vars

\* The flush thread, the writer and stop() each keep running while the
\* process lives.
FlushThreadStep ==
    (FlushLoop \/ Swap \/ FlushAfter \/ FlushFinal \/ FlushFinalAfter) /\ ThreadOnly
WriterStep == \E w \in Writers : (InsertRow(w) \/ Commit(w)) /\ WriteOnly
StopStep == (StopJoin \/ StopFlush \/ StopFlushAfter \/ StopClose) /\ StopOnly
SpecFlushFair ==
    /\ InitFlush /\ [][NextFlush]_vars
    /\ WF_vars(FlushThreadStep) /\ WF_vars(WriterStep) /\ WF_vars(StopStep)

\* ----------------------------------------------------------- SpecStopTwice
\* The receiver shut down by a signal: stop() from the handler, and again
\* from main's finally block.
NextStopTwice ==
    \/ NextFlush
    \/ StopAgain /\ StopOnly
SpecStopTwice == InitFlush /\ [][NextStopTwice]_vars

\* --------------------------------------------------------------- SpecGroup
\* Group creation by the publisher and by receivers being started, on a
\* stream that has no group at first, with the consumption that gives the
\* group a cursor and pending entries.
InitGroup ==
    /\ DistIdle /\ ConnIdle /\ StreamIdle
    /\ last_delivered = 0 /\ pending = {} /\ acked = {} /\ processed = {}
    /\ group = NoGroup
    /\ cpc = "down" /\ inhand = <<>> /\ polls = 0 /\ crashes = 0
    /\ ticks_processed = 0 /\ latest = {} /\ history = {}
    /\ active_symbols = {}
    /\ FlushIdle /\ StoreIdle /\ StopIdle
GroupOther == UNCHANGED <<distVars, connVars, stopVars, running, fpc, batch, lock,
                          db, writes, ncalls, call_len, store_errors>>
NextGroup ==
    \/ XAdd({SerializeTick(GoodTick)})
       /\ UNCHANGED <<groupVars, createVars, loopVars, buffer, conn, txn>> /\ GroupOther
    \/ EnsureConsumerGroup
       /\ UNCHANGED <<streamVars, loopVars, buffer, conn, txn>> /\ GroupOther
    \/ Connect /\ UNCHANGED streamVars /\ GroupOther
    \/ XReadGroup /\ UNCHANGED <<streamVars, createVars, buffer, conn, txn>> /\ GroupOther
    \/ ProcessEntry /\ UNCHANGED <<streamVars, createVars, conn, txn>> /\ GroupOther
    \/ XAck /\ UNCHANGED <<streamVars, createVars, buffer, conn, txn>> /\ GroupOther
    \/ Crash /\ UNCHANGED <<streamVars, groupVars, createVars>> /\ GroupOther
SpecGroup == InitGroup /\ [][NextGroup]_vars

\* ------------------------------------------------------------- SpecReplace
\* The receiver and the periodic flush through an outage of the stream
\* server: the loop's reconnect re-opens the store under the flush thread.
ReplacePayloads == {SerializeTick(GoodTick), SerializeTick(NextTick)}
InitReplace ==
    /\ DistIdle /\ ConnIdle /\ GroupIdle /\ LoopIdle
    /\ FlushIdle /\ StoreIdle /\ StopIdle
    /\ redis_up = TRUE /\ outages = 0
    /\ stream \in BoundedSeq(ReplacePayloads, MaxEntries) \ {<<>>}
ReplaceOther == UNCHANGED <<distVars, createVars, connVars, stopVars>>
ReplaceLoop == UNCHANGED <<streamVars, running, fpc, batch, lock, storeVars>> /\ ReplaceOther
ReplaceThread == UNCHANGED <<streamVars, groupVars, loopVars>> /\ ReplaceOther
ReplaceWrite == UNCHANGED <<streamVars, groupVars, loopVars, flushVars>> /\ ReplaceOther
ReplaceEnv == UNCHANGED <<groupVars, loopVars, flushVars, storeVars>> /\ ReplaceOther
NextReplace ==
    \/ XReadGroup /\ UNCHANGED buffer /\ ReplaceLoop
    \/ ProcessEntry /\ ReplaceLoop
    \/ XAck /\ UNCHANGED buffer /\ ReplaceLoop
    \/ Reconnect
       /\ UNCHANGED <<streamVars, groupVars, flushVars, db, ncalls, call_len, store_errors>>
       /\ ReplaceOther
    \/ RedisDown /\ ReplaceEnv
    \/ RedisUp /\ ReplaceEnv
    \/ FlushLoop /\ ReplaceThread
    \/ Swap /\ ReplaceThread
    \/ FlushAfter /\ ReplaceThread
    \/ InsertRow("flush") /\ ReplaceWrite
    \/ Commit("flush") /\ ReplaceWrite
SpecReplace == InitReplace /\ [][NextReplace]_vars

\* --------------------------------------------------------------- SpecRetry
\* The receiver and the periodic flush, without shutdown, on a stream that
\* holds ticks persist_ticks raises on.
InitRetry ==
    /\ DistIdle /\ ConnIdle /\ GroupIdle /\ LoopIdle
    /\ FlushIdle /\ StoreIdle /\ StopIdle
    /\ redis_up = TRUE /\ outages = 0
    /\ stream \in BoundedSeq(FlushPayloads, MaxEntries) \ {<<>>}
NextRetry ==
    \/ XReadGroup /\ UNCHANGED buffer /\ LoopOnly
    \/ ProcessEntry /\ LoopOnly
    \/ XAck /\ UNCHANGED buffer /\ LoopOnly
    \/ FlushLoop /\ ThreadOnly
    \/ Swap /\ ThreadOnly
    \/ FlushAfter /\ ThreadOnly
    \/ InsertRow("flush") /\ WriteOnly
    \/ Commit("flush") /\ WriteOnly
SpecRetry == InitRetry /\ [][NextRetry]_vars

\* ---------------------------------------------------------------- SpecRows
\* The receiver and the periodic flush on payloads of every shape, without
\* outages and without shutdown: what the rows written are made of.
InitRows ==
    /\ DistIdle /\ ConnIdle /\ GroupIdle /\ LoopIdle
    /\ FlushIdle /\ StoreIdle /\ StopIdle
    /\ redis_up = TRUE /\ outages = 0
    /\ stream \in BoundedSeq(RowPayloads, MaxEntries) \ {<<>>}
NextRows ==
    \/ XReadGroup /\ UNCHANGED buffer /\ LoopOnly
    \/ ProcessEntry /\ LoopOnly
    \/ XAck /\ UNCHANGED buffer /\ LoopOnly
    \/ FlushLoop /\ ThreadOnly
    \/ Swap /\ ThreadOnly
    \/ FlushAfter /\ ThreadOnly
    \/ InsertRow("flush") /\ WriteOnly
    \/ Commit("flush") /\ WriteOnly
SpecRows == InitRows /\ [][NextRows]_vars

\* ------------------------------------------------------------------ claims
TokensOf(insts) == [i \in DOMAIN insts |-> insts[i].instrument_token]

\* C1: for pairwise-distinct tokens T and 1 <= N <= 3, distribute_tokens(T, N)
\* returns exactly N buckets, every token of T is in exactly one bucket exactly
\* once, and nothing else is in any bucket.
C1_DistributePartitions ==
    (dist_done /\ Distinct(TokensOf(instruments)) /\ num_sockets \in 1..SocketCap) =>
        /\ Len(token_buckets) = num_sockets
        /\ UNION {Range(token_buckets[b]) : b \in DOMAIN token_buckets}
               = Range(TokensOf(instruments))
        /\ \A a, b \in DOMAIN token_buckets :
               a # b => Range(token_buckets[a]) \cap Range(token_buckets[b]) = {}
        /\ SumLen(token_buckets) = Len(instruments)
C1_Witness ==
    /\ dist_done /\ Distinct(TokensOf(instruments))
    /\ Len(instruments) = 4 /\ num_sockets = 3
    /\ Len(token_buckets[1]) = 2

\* C2: no instrument token is held by two live feed connections, whatever the
\* sequence of start(), stop() and reconnect_all() and whatever the instrument
\* list (one with a repeated token included).
C2_NoTokenOnTwoLiveConnections ==
    \A a, b \in DOMAIN conns :
        (a # b /\ conns[a].live /\ conns[b].live) =>
            Range(conns[a].tokens) \cap Range(conns[b].tokens) = {}

\* C9: a tick callback never lets an exception out; a batch whose publish
\* failed leaves the stream as it was (dropped, not retried), and a batch
\* handed over while the stream is available is appended whatever happened to
\* the batches before it.
C9_PublishFailureContained ==
    callbacks > 0 =>
        /\ cb.escaped = NoException
        /\ IF cb.up /\ \A i \in DOMAIN cb.ticks : cb.ticks[i].serializable
           THEN stream = cb.before
                    \o [i \in DOMAIN cb.ticks |-> SerializeTick(cb.ticks[i])]
           ELSE stream = cb.before
C9_Witness ==
    /\ callbacks = 2 /\ cb.sent /\ cb.before = <<>> /\ stream # <<>>
    /\ outages > 0

\* C10: a tick whose token is absent from the token map (0 included) leaves
\* the feed callback with the trading symbol TOKEN_<token>.
C10_UnmappedTokenSymbol ==
    \A i \in DOMAIN cb.ticks :
        cb.ticks[i].instrument_token \notin TokenToSymbol(instruments) =>
            cb.ticks[i].tradingsymbol = TokenSymbol(cb.ticks[i].instrument_token)

\* C3: at-least-once delivery: every entry appended to the stream is
\* eventually processed and acknowledged, a receiver crash-and-restart or a
\* stream outage notwithstanding.
C3_AtLeastOnce ==
    \A e \in 1..MaxEntries :
        (Len(stream) >= e) ~> (e \in processed /\ e \in acked)

\* C4: an entry is acknowledged only after its processing step has returned
\* or raised.
C4_AckAfterProcessing == acked \subseteq processed
C4_Witness ==
    \E e \in acked : stream[e].kind = "garbage" /\ e \in processed

\* the rows of persist_ticks call n that are committed
Committed(n) == Cardinality({i \in DOMAIN db : db[i].call = n})
CallInProgress(n) == \E w \in Writers : writes[w].call = n /\ writes[w].res = "busy"
FlushWriteFailed ==
    /\ fpc = "write" /\ writes["flush"].res \in {"rolledback", "raised"}
    /\ fpc' # "write"

\* C5: when the write of a batch hit an error, the flush loop's handling
\* leaves that batch at the head of the PersistBuffer; it is not discarded.
C5_FailedBatchRequeued ==
    [][FlushWriteFailed => IsPrefix(batch, buffer')]_vars

\* C6: every persist_ticks call that has ended has committed either all
\* len(batch) rows of its batch or none of them, now and after any later call.
C6_FlushAtomicity ==
    \A n \in 1..ncalls :
        ~CallInProgress(n) => Committed(n) \in {0, call_len[n]}

\* C7: after the handling of a failed flush of batch B the buffer is exactly
\* B followed by the ticks appended since B was swapped out, and every swap
\* hands the whole buffer, in its order, to the writer.
C7_RequeueOrdering ==
    [][/\ FlushWriteFailed => buffer' = batch \o buffer
       /\ (fpc = "sleep" /\ fpc' = "write") => writes'["flush"].rows = buffer]_vars

\* C8: when stop() has returned, every tick that was buffered or in a
\* swapped-out batch when stop() was called is committed or still held, and
\* the store was not closed under a write in flight.
C8_FinalFlushBeforeClose ==
    spc = "done" =>
        /\ \A e \in at_stop :
               \/ \E i \in DOMAIN db : db[i].eid = e
               \/ e \in Eids(buffer) \cup Eids(batch)
        /\ \A w \in Writers : writes[w].res # "busy"

HeldTokens == [k \in DOMAIN sockets |-> conns[sockets[k]].tokens]

\* C11: after start() has returned there is exactly one held connection per
\* non-empty partition, in order, and the coordinator never holds more than
\* 3 connections, whatever list of partitions start() was given.
C11_OnePerPartitionCapped ==
    /\ Len(sockets) <= SocketCap
    /\ (sockets # <<>> /\ start_exc = 0) => HeldTokens = ActiveBuckets(token_buckets)

\* C12: stop() leaves no connection held and every connection started so far
\* closed, and a stop() with nothing held (a second stop(), or one before any
\* start()) changes nothing.
C12_StopIdempotent ==
    [][Stop =>
         /\ sockets' = <<>>
         /\ \A c \in DOMAIN conns' : ~conns'[c].live
         /\ sockets = <<>> => conns' = conns]_vars

\* C13: one connection's failure leaves the others alone: a socket closing
\* changes that connection only, stop() stops every held connection even when
\* some close() raised, and after a start() in which one connection failed
\* every other non-empty partition has its connection.
C13_FailureIsolation ==
    [][/\ \A c \in DOMAIN conns :
             OnClose(c) => \A d \in DOMAIN conns : d # c => conns'[d] = conns[d]
       /\ Stop => \A c \in Range(sockets) : ~conns'[c].live /\ ~conns'[c].connected
       /\ start_exc' # 0 =>
             Len(sockets') >= Len(ActiveBuckets(token_buckets)) - 1]_vars

\* C14: the coordinator's health values agree with the connections it holds:
\* a tick batch of n ticks on a held connection raises total_tick_count by n
\* and makes last_tick_time the time of that callback, nothing else moves
\* total_tick_count while the same connections are held, all_connected is
\* false exactly when some held connection is not connected, and
\* last_tick_time is the last-tick time of a held connection that no held
\* connection exceeds.
C14_HealthAgrees ==
    [][/\ callbacks' = callbacks + 1 =>
             /\ TotalTickCount' = TotalTickCount + Len(cb'.ticks)
             /\ LastTickTime' = clock
       /\ (callbacks' = callbacks /\ sockets' = sockets) =>
             TotalTickCount' = TotalTickCount
       /\ AllConnected' <=> ~\E c \in Range(sockets') : ~conns'[c].connected
       /\ \A c \in Range(sockets') :
             /\ conns'[c].last_tick_time <= LastTickTime'
             /\ \E d \in Range(sockets') : conns'[d].last_tick_time = LastTickTime']_vars
C14_Witness ==
    /\ Len(sockets) = 2 /\ callbacks = 2 /\ TotalTickCount >= 2
    /\ conns[sockets[1]].last_tick_time < conns[sockets[2]].last_tick_time
    /\ LastTickTime = conns[sockets[2]].last_tick_time
    /\ ~AllConnected

\* C15: when the processing of an entry raised and the stream answers, the
\* loop's next step acknowledges that entry and moves on to the next entry of
\* the same read (or to the next read); an entry already processed is never
\* in hand again.
C15_PoisonEntryAcked ==
    [][/\ (/\ cpc = "ack" /\ redis_up /\ ProcessRaises(stream[Head(inhand)])
           /\ cpc' \notin {"ack", "down"}) =>
              /\ Head(inhand) \in acked' /\ Head(inhand) \notin pending'
              /\ inhand' = Tail(inhand)
              /\ cpc' = IF Tail(inhand) = <<>> THEN "read" ELSE "process"
       /\ \A k \in DOMAIN inhand' :
              inhand'[k] \in processed' => (cpc' = "ack" /\ k = 1)]_vars
C15_Witness ==
    /\ cpc = "process" /\ inhand # <<>> /\ Head(inhand) > 1
    /\ ProcessRaises(stream[Head(inhand) - 1])
    /\ Head(inhand) - 1 \in acked /\ Head(inhand) - 1 \in processed
    /\ crashes = 0 /\ outages = 0

\* C16: a connection error never ends the consumption loop: from the
\* error handler the loop always gets back to reading, however often the
\* reconnect attempt fails.
C16_ReconnectForever == (cpc = "reconnect") ~> (cpc = "read")
C16_Witness ==
    /\ cpc = "read" /\ ~redis_up /\ pending # {} /\ inhand = <<>> /\ crashes = 0

\* C17: the buffer lock is never held across a call to the store writer: no
\* persist_ticks call is in progress while the lock is held (periodic flush,
\* final flush, append path).
C17_LockNotHeldAcrossWrite ==
    lock # "free" => \A w \in Writers : writes[w].res # "busy"

BufferInOrder(b) == \A i, j \in DOMAIN b : i < j => b[i].eid < b[j].eid
\* C18: entries are processed and acknowledged in the order the stream
\* delivered them, and the PersistBuffer always lists its ticks in the order
\* they were processed, swaps and failed-flush requeues included.
C18_ReceiptOrderKept ==
    [][/\ \A e \in processed' \ processed : \A f \in processed : f < e
       /\ \A e \in acked' \ acked : \A f \in acked : f < e
       /\ BufferInOrder(buffer') /\ BufferInOrder(batch')
       /\ \A i \in DOMAIN batch', j \in DOMAIN buffer' :
              batch'[i].eid < buffer'[j].eid]_vars
C18_Witness ==
    /\ ncalls = 1 /\ writes["flush"] = IdleWrite /\ fpc = "loop" /\ spc = "idle"
    /\ db = <<>> /\ store_errors = 0
    /\ Len(buffer) > call_len[1]

\* the stream holds k ticks of one symbol and one trade date, all of them
\* processed, and nothing has failed or been stopped
NormalFlow(sym, day) ==
    /\ \A e \in DOMAIN stream :
          /\ stream[e].kind = "json" /\ stream[e].tick.well_formed
          /\ stream[e].tick.tradingsymbol = sym
          /\ stream[e].tick.exchange_timestamp.kind = "iso"
          /\ stream[e].tick.exchange_timestamp.date = day
    /\ processed = DOMAIN stream /\ cpc # "process"
    /\ store_errors = 0 /\ spc = "idle" /\ redis_up

\* C20: when k ticks of one symbol and one trade date were published and
\* nothing fails, the receiver buffers exactly k ticks, and one successful
\* flush of them commits exactly k rows, each with that symbol and that trade
\* date, and leaves the buffer empty.
C20_EndToEnd ==
    \A sym \in {ListedSymbol(1)}, day \in {1, Today} :
        NormalFlow(sym, day) =>
            /\ ncalls = 0 => Len(buffer) = Len(stream)
            /\ (ncalls = 1 /\ call_len[1] = Len(stream)
                    /\ writes["flush"] = IdleWrite /\ fpc = "loop") =>
                  /\ Len(db) = Len(stream) /\ buffer = <<>>
                  /\ \A i \in DOMAIN db :
                        db[i].tradingsymbol = sym /\ db[i].trade_date = day
C20_Witness ==
    /\ NormalFlow(ListedSymbol(1), 1) /\ Len(stream) = 3
    /\ ncalls = 1 /\ call_len[1] = 3 /\ writes["flush"] = IdleWrite /\ fpc = "loop"
    /\ Len(db) = 3

\* C19: the ticks of one feed connection (they carry its token) are in the
\* stream in the order they arrived from its socket, within a batch and
\* across its batches, however the connections' commands interleave.
C19_PerConnectionOrder ==
    \A i, j \in DOMAIN stream :
        (i < j /\ stream[i].tick.instrument_token = stream[j].tick.instrument_token) =>
            stream[i].tick.exchange_timestamp.tod < stream[j].tick.exchange_timestamp.tod
C19_Witness ==
    \E i, j, k \in DOMAIN stream :
        /\ i < j /\ j < k
        /\ stream[i].tick.instrument_token = stream[k].tick.instrument_token
        /\ stream[j].tick.instrument_token # stream[i].tick.instrument_token
        /\ stream[k].tick.exchange_timestamp.tod = stream[i].tick.exchange_timestamp.tod + 1

\* the entries processed so far that carried a tick of symbol sym, and the
\* last of a set of entries
TickEntries(sym) ==
    {e \in processed : /\ stream[e].kind = "json" /\ ~ProcessRaises(stream[e])
                       /\ BufferedSymbol(JsonLoads(stream[e])) = sym}
LastEntry(S) == CHOOSE e \in S : \A f \in S : f <= e

\* C21: for every tick processed so far, the latest snapshot of its symbol
\* holds the price, volume and timestamp of the last tick processed for that
\* symbol, and the symbol is in the active-symbol set of the tick's trade date.
C21_LatestSnapshot ==
    \A e \in processed :
        (stream[e].kind = "json" /\ ~ProcessRaises(stream[e])) =>
            LET tick == JsonLoads(stream[e])
                sym == BufferedSymbol(tick)
                last == JsonLoads(stream[LastEntry(TickEntries(sym))])
            IN  /\ Snapshot(sym, last) \in latest
                /\ [date |-> ExtractDate(tick.exchange_timestamp), sym |-> sym]
                       \in active_symbols

\* the rows of tick_depths of one side among the rows linked to a tick
SideOf(rows, side) == SelectSeq(rows, LAMBDA r : r.side = side)
\* C22: every committed tick row has as many depth rows as its tick has buy
\* levels plus sell levels, numbered 0..n-1 on each side in the order of the
\* input, and a tick without depth has none.
C22_DepthRecords ==
    \A i \in DOMAIN db :
        LET depth == JsonLoads(stream[db[i].eid]).depth
            buys == SideOf(db[i].depths, "buy")
            sells == SideOf(db[i].depths, "sell")
        IN  /\ Len(db[i].depths) = Len(depth.buy) + Len(depth.sell)
            /\ Len(buys) = Len(depth.buy) /\ Len(sells) = Len(depth.sell)
            /\ \A k \in DOMAIN buys :
                  buys[k].level = k - 1 /\ buys[k].price = depth.buy[k]
            /\ \A k \in DOMAIN sells :
                  sells[k].level = k - 1 /\ sells[k].price = depth.sell[k]
            /\ ~depth.present => db[i].depths = <<>>
C22_Witness ==
    \E i, j \in DOMAIN db :
        /\ Len(SideOf(db[i].depths, "buy")) = 2 /\ Len(SideOf(db[i].depths, "sell")) = 1
        /\ ~JsonLoads(stream[db[j].eid]).depth.present

\* the day a timestamp stands for: its own when it is an ISO string, the
\* current day otherwise
DayOf(ts) == IF ts.kind = "iso" THEN ts.date ELSE Today
\* C23: neither the receiver nor the writer raises on a timestamp: every tick
\* processed is filed under, and every row written carries, the day of its
\* timestamp when that is an ISO string and the current day when it is
\* missing, empty or does not parse.
C23_DateFallback ==
    /\ \A e \in processed :
          LET tick == JsonLoads(stream[e])
          IN  [date |-> DayOf(tick.exchange_timestamp), sym |-> BufferedSymbol(tick)]
                  \in active_symbols
    /\ \A w \in Writers : writes[w].res # "raised"
    /\ \A i \in DOMAIN txn :
          txn[i].trade_date = DayOf(JsonLoads(stream[txn[i].eid]).exchange_timestamp)
    /\ \A i \in DOMAIN db :
          db[i].trade_date = DayOf(JsonLoads(stream[db[i].eid]).exchange_timestamp)
C23_Witness ==
    \E i, j, k \in DOMAIN db :
        /\ JsonLoads(stream[db[i].eid]).exchange_timestamp = BadTimestamp
        /\ JsonLoads(stream[db[j].eid]).exchange_timestamp = NumberTimestamp
        /\ JsonLoads(stream[db[k].eid]).exchange_timestamp.kind = "iso"
        /\ db[i].trade_date = Today /\ db[j].trade_date = Today /\ db[k].trade_date = 1

\* C24: every committed tick row has a non-empty trading symbol, a received_at
\* time and a calendar day as its trade date.
C24_RowFieldsPopulated ==
    \A i \in DOMAIN db :
        /\ db[i].tradingsymbol.kind \notin {"EMPTY", "ABSENT"}
        /\ db[i].received_at.kind = "iso"
        /\ db[i].trade_date \in 1..Today

\* C25: a connect callback sets the connection's connected flag, and after a
\* close callback and after an error callback the flag is false.
C25_FlagClearedOnCloseAndError ==
    [][\A c \in DOMAIN conns :
          /\ OnConnect(c) => conns'[c].connected
          /\ (OnClose(c) \/ OnError(c)) => ~conns'[c].connected]_vars

\* the flush thread has left its loop
FlushLoopLeft == fpc \in {"final", "finalwrite", "done"}
CopiesIn(seq, e) == Cardinality({i \in DOMAIN seq : seq[i].eid = e})
\* the number of times entry e was delivered by the group
Deliveries(e) == IF e <= last_delivered THEN 1 ELSE 0
\* The ticks held for a later write: the batch of a flush that raised (it is
\* put back), and the buffer, unless a final flush is writing it or has
\* written it under the lock (the buffer is then emptied; it is kept when the
\* write raised). Rows of a write still in progress count once committed.
RetainedBatch == IF writes["flush"].res = "raised" THEN batch ELSE <<>>
HeldBuffer ==
    IF \E w \in Writers :
          lock = w /\ writes[w].res \in {"busy", "committed", "rolledback"}
    THEN <<>> ELSE buffer
\* C27: the copies of a tick held in the PersistBuffer, held in a batch to
\* be put back and among the committed rows are together at most as many as
\* the deliveries of its entry.
C27_NoDuplicates ==
    \A e \in DOMAIN stream :
        CopiesIn(HeldBuffer, e) + CopiesIn(RetainedBatch, e) + CopiesIn(db, e)
            <= Deliveries(e)

\* C28: a reconnect_all() that returns has stopped every connection the
\* coordinator held, and the coordinator then holds none of them but one
\* connection per non-empty partition, in order, each constructed and started
\* by this call.
C28_ReconnectAllResets ==
    [][(ReconnectAll /\ start_exc' = 0) =>
          /\ \A c \in Range(sockets) : ~conns'[c].live /\ ~conns'[c].connected
          /\ Range(sockets') \cap Range(sockets) = {}
          /\ \A k \in DOMAIN sockets' :
                /\ sockets'[k] > Len(conns)
                /\ conns'[sockets'[k]].live
          /\ [k \in DOMAIN sockets' |-> conns'[sockets'[k]].tokens]
                 = ActiveBuckets(token_buckets)]_vars
C28_Witness ==
    /\ start_exc = 0 /\ Len(sockets) = 2
    /\ \E c, d \in DOMAIN conns :
          /\ c # d /\ ~conns[c].live /\ ~conns[d].live /\ conns[c].close_raised
          /\ \A k \in DOMAIN sockets : sockets[k] > c /\ sockets[k] > d
    /\ \A k \in DOMAIN sockets : conns[sockets[k]].live

\* C29: group creation, by the publisher and by the receiver alike, on a
\* group that exists raises nothing and leaves the group, its cursor and its
\* pending entries as they were, and any reply of the server other than OK
\* and BUSYGROUP leaves the call as an exception.
C29_GroupCreationIdempotent ==
    [][group'.calls # group.calls =>
          /\ group'.site \in {"publisher", "receiver"}
          /\ group.exists =>
                /\ group'.exists
                /\ last_delivered' = last_delivered /\ pending' = pending
                /\ group'.reply = "BUSYGROUP" => group'.exc = NoException
          /\ group'.reply \notin {"OK", "BUSYGROUP"} => group'.exc = group'.reply]_vars
C29_Witness ==
    /\ group.calls = 3 /\ group.site = "receiver" /\ group.reply = "BUSYGROUP"
    /\ group.exc = NoException /\ pending # {} /\ last_delivered > 0

\* C30: in one receiver process, whenever the consumption loop reads new
\* entries, every entry delivered by its earlier reads has been processed
\* and acknowledged.
C30_BatchDoneBeforeNextRead ==
    [][(crashes = 0 /\ last_delivered' # last_delivered) =>
          \A e \in 1..last_delivered : e \in processed /\ e \in acked]_vars

\* C31: a persist_ticks call that has committed and returns the length of
\* its batch has every row of that batch among the committed rows.
C31_ReportedMeansCommitted ==
    \A w \in Writers :
        writes[w].res = "committed" =>
            Committed(writes[w].call) = Len(writes[w].rows)

\* C32: at no time are two persist_ticks calls executing on the store
\* connection, and stop() has not closed the store while a write of the
\* flush thread is in progress.
C32_OneWriterAtATime ==
    /\ Cardinality({w \in Writers : writes[w].res = "busy"}) <= 1
    /\ spc = "done" => writes["flush"].res # "busy"

\* entries of the ticks held for persistence that persist_ticks raises on
PoisonHeld == {it.eid : it \in {x \in Range(batch \o buffer) : ~x.tick.well_formed}}
\* length of the PersistBuffer, with the swapped-out batch while that batch
\* holds such a tick
HeldLen ==
    Len(buffer) + (IF \E i \in DOMAIN batch : ~batch[i].tick.well_formed
                   THEN Len(batch) ELSE 0)
FlushWriteRaised ==
    /\ fpc = "write" /\ writes["flush"].res = "raised"
    /\ fpc' # "write"
\* C33: while a tick the writer raises on at every attempt is held (and no
\* call ended on a store error before reaching it), a failed batch goes back
\* to the head of the buffer and the next flush takes it with every tick
\* buffered since, the buffer (with the batch being retried) never gets
\* shorter, the tick stays held, and no tick buffered after it is committed
\* by the periodic flush.
C33_PoisonBlocksFlush ==
    [][(PoisonHeld # {} /\ store_errors' = 0) =>
          /\ FlushWriteRaised => buffer' = batch \o buffer
          /\ (fpc = "sleep" /\ fpc' = "write") =>
                writes'["flush"].rows = buffer /\ buffer' = <<>>
          /\ HeldLen' >= HeldLen
          /\ PoisonHeld \subseteq PoisonHeld'
          /\ \A p \in PoisonHeld : \A i \in DOMAIN db' : db'[i].eid < p]_vars
C33_Witness ==
    /\ ncalls >= 2 /\ fpc = "write" /\ writes["flush"].res = "raised"
    /\ Len(batch) >= 3 /\ ~batch[2].tick.well_formed
    /\ batch[1].tick.well_formed /\ batch[3].tick.well_formed
    /\ db = <<>> /\ store_errors = 0

\* the fast-lookup write of entry e is about to fail: a tick that reaches
\* _store_in_redis while the server is away
StoreWriteFails(e) ==
    /\ cpc = "process" /\ Head(inhand) = e /\ ~redis_up
    /\ stream[e].kind # "empty" /\ ~ProcessRaises(stream[e])
\* the fast-lookup write of entry e failed: processed and stored nowhere
StoreWriteFailed(e) ==
    /\ e \in processed /\ e \notin history
    /\ stream[e].kind # "empty" /\ ~ProcessRaises(stream[e])
\* C34: an entry whose fast-lookup write fails is appended to the
\* PersistBuffer once and counted once by that processing step, and when the
\* loop leaves the entry it has been acknowledged.
C34_StoreFailureContained ==
    [][\A e \in DOMAIN stream :
          /\ (StoreWriteFails(e) /\ cpc' = "ack") =>
                /\ Len(buffer') = Len(buffer) + 1
                /\ buffer'[Len(buffer')].eid = e
                /\ SubSeq(buffer', 1, Len(buffer)) = buffer
                /\ ticks_processed' = ticks_processed + 1
          /\ (/\ cpc = "ack" /\ Head(inhand) = e /\ StoreWriteFailed(e)
              /\ cpc' # "ack" /\ crashes' = crashes) => e \in acked']_vars

\* C35: a batch with a tick that cannot be serialized adds nothing to the
\* stream, the ticks before the bad one included, and the exception does not
\* leave the feed callback.
C35_SerializationAllOrNothing ==
    (callbacks > 0 /\ \E i \in DOMAIN cb.ticks : ~cb.ticks[i].serializable) =>
        /\ stream = cb.before
        /\ ~cb.sent
        /\ cb.escaped = NoException
C35_Witness ==
    /\ callbacks > 0 /\ cb.up /\ pub_client /\ Len(cb.ticks) = 2
    /\ cb.ticks[1].serializable /\ ~cb.ticks[2].serializable
    /\ stream = cb.before /\ cb.escaped = NoException

\* C36: the processing step of an entry whose data field is missing or empty
\* leaves the PersistBuffer, the fast-lookup store and the processed counter
\* as they were and hands the entry to the acknowledgment, which, the stream
\* answering, acknowledges it with the same state untouched.
C36_EmptyEntryNoEffect ==
    [][(/\ cpc \in {"process", "ack"} /\ inhand # <<>>
        /\ stream[Head(inhand)].kind = "empty"
        /\ cpc' \notin {cpc, "down"}) =>
          /\ UNCHANGED <<buffer, latest, history, active_symbols, ticks_processed>>
          /\ cpc = "process" => cpc' = "ack" /\ inhand' = inhand
          /\ (cpc = "ack" /\ redis_up) =>
                Head(inhand) \in acked' /\ Head(inhand) \notin pending']_vars
C36_Witness ==
    \E e \in acked :
        /\ e > 1 /\ stream[e].kind = "empty" /\ stream[1].kind = "json"
        /\ 1 \in acked /\ ticks_processed = 1 /\ Len(buffer) = 1
        /\ latest # {} /\ crashes = 0

\* C37: total_tick_count does not decrease while the coordinator holds the
\* same connections, a tick callback adds the size of its batch whether or
\* not the publish succeeded, and right after stop() and after
\* reconnect_all() it is 0.
C37_TotalTickCount ==
    [][/\ sockets' = sockets => TotalTickCount' >= TotalTickCount
       /\ callbacks' = callbacks + 1 =>
             TotalTickCount' = TotalTickCount + Len(cb'.ticks)
       /\ (Stop \/ ReconnectAll) => TotalTickCount' = 0]_vars
C37_Witness ==
    /\ callbacks = 1 /\ ~cb.sent /\ sockets # <<>> /\ TotalTickCount = 0
    /\ \E c \in DOMAIN conns : ~conns[c].live /\ conns[c].tick_count = 2

\* C38: whenever the coordinator holds no connection (before start(), after
\* stop(), after a start() given only empty partitions) all_connected is
\* true.
C38_AllConnectedWhenEmpty == sockets = <<>> => AllConnected
C38_Witness ==
    /\ sockets = <<>> /\ AllConnected /\ Len(conns) = 2
    /\ \A c \in DOMAIN conns : ~conns[c].live /\ ~conns[c].connected
    /\ ActiveBuckets(token_buckets) # <<>>

\* C39: no step of a second stop() raises, commits a row, changes the
\* PersistBuffer or changes the store connection and its open transaction.
C39_SecondStopHarmless ==
    [][(stop_calls' = 2 /\ spc' # spc) =>
          /\ spc' # "raised"
          /\ db' = db /\ buffer' = buffer
          /\ conn' = conn /\ txn' = txn]_vars
C39_Witness ==
    /\ stop_calls = 2 /\ spc = "done" /\ conn = "closed"
    /\ buffer # <<>> /\ db # <<>> /\ ncalls >= 2
    /\ \E i \in DOMAIN buffer : \E j \in DOMAIN db : db[j].eid = buffer[i].eid
====
